---- MODULE Spec2Model ----
(***************************************************************************)
(* Model of src/server.py: the "fh_mcp" protocol server.  Three handlers   *)
(* (initialize, tools/list, tools/call) run as cooperatively scheduled     *)
(* tasks on one event loop.  tools/call dispatches on the tool name to     *)
(* four tools; the two RAG tools embed a text through an awaited HTTP call *)
(* and then call the vector store through the synchronous Qdrant client.   *)
(*                                                                         *)
(* A handler step is the code between two suspension points.  The only     *)
(* awaited operation is get_embedding; qdrant.upsert, qdrant.search and    *)
(* the Drive calls are synchronous, so the task that issues one keeps the  *)
(* event loop (variable blocked) until the collaborator has answered.      *)
(***************************************************************************)
EXTENDS Integers, Sequences, FiniteSets, TLC

VARIABLES
    QDRANT_API_KEY,     \* line 27: "" when the environment does not set it
    collection,         \* the points of collection "rag_docs", in the store's order
    pc,                 \* per task: "idle", "await_embedding", "in_store", "in_gdrive"
    params,             \* per task: request.params of the call it is handling
    emb,                \* per task: the local emb of on_tools_call
    sent,               \* per task: the outbound requests issued so far, in order
    blocked,            \* the task inside a synchronous client call, 0 when none
    last,               \* the request the latest step ended, and how it ended
    before,             \* collection as it was before the latest step
    exists,             \* the store holds a collection named "rag_docs"
    boot,               \* per server instance: how far its module import has got
    answer              \* per server instance: what the store answered its create

provVars == <<exists, boot, answer>>

vars == <<QDRANT_API_KEY, collection, pc, params, emb, sent, blocked, last, before,
          exists, boot, answer>>

----------------------------------------------------------------------------
(* Bounds of the model *)

\* number of tools/call tasks that can be in flight at the same time
MaxCalls == 2

Calls == 1..MaxCalls

\* number of server instances that start against the same store
MaxInstances == 3

Instances == 1..MaxInstances

----------------------------------------------------------------------------
(* Inputs *)

DocIds == {"d1", "d2"}
Texts == {"fox", "dog"}
TopKs == {1}
FileIds == {"f1"}
DriveQueries == {"report"}

UnknownNames == {"does_not_exist"}

\* an arguments mapping without any key
NoArgs == <<>>

UpsertArgs ==
    {NoArgs}
    \cup {[doc_id |-> d] : d \in DocIds}
    \cup {[text |-> t] : t \in Texts}
    \cup {[doc_id |-> d, text |-> t] : d \in DocIds, t \in Texts}

SearchArgs ==
    {NoArgs}
    \cup {[query |-> q] : q \in Texts}
    \cup {[query |-> q, top_k |-> k] : q \in Texts, k \in TopKs}

GdriveSearchArgs == {NoArgs} \cup {[query |-> q] : q \in DriveQueries}

GdriveReadArgs == {NoArgs} \cup {[file_id |-> f] : f \in FileIds}

\* request.params of the tools/call requests a client can send
CallParams ==
    {[name |-> "rag_upsert", arguments |-> a] : a \in UpsertArgs}
    \cup {[name |-> "rag_search", arguments |-> a] : a \in SearchArgs}
    \cup {[name |-> "gdrive_search", arguments |-> a] : a \in GdriveSearchArgs}
    \cup {[name |-> "gdrive_read", arguments |-> a] : a \in GdriveReadArgs}
    \cup {[name |-> n, arguments |-> NoArgs] : n \in UnknownNames}
    \cup {[name |-> "rag_search"]}
    \cup {[arguments |-> NoArgs]}

NoParams == [none |-> TRUE]
NoResult == [none |-> TRUE]
NoVector == <<>>

----------------------------------------------------------------------------
(* Collaborators *)

\* The embedding the provider returns for a text.  The vectors have the same
\* norm (5), so their dot product orders them as their cosine does.
Embed(text) ==
    CASE text = "fox" -> <<3, 4>>
      [] text = "dog" -> <<4, 3>>

\* cosine similarity of two vectors of norm 5, times 25
Score(q, v) == q[1] * v[1] + q[2] * v[2]

PointStruct(id, vector, payload) == [id |-> id, vector |-> vector, payload |-> payload]

UpsertAppend(points, p) == Append(points, p)

\* an upsert that drops what the collection held
UpsertRecreating(points, p) == <<p>>

\* qdrant.upsert of one point: replace the point with the same id, else insert
Upsert(points, p) ==
    IF \E i \in 1..Len(points) : points[i].id = p.id
    THEN [i \in 1..Len(points) |-> IF points[i].id = p.id THEN p ELSE points[i]]
    ELSE Append(points, p)

\* the index in rem of the closest point to qv; the store's order breaks ties
BestIndex(points, qv, rem) ==
    CHOOSE i \in rem :
        \A j \in rem :
            \/ Score(qv, points[i].vector) > Score(qv, points[j].vector)
            \/ /\ Score(qv, points[i].vector) = Score(qv, points[j].vector)
               /\ i <= j

RECURSIVE RankFrom(_, _, _)
RankFrom(points, qv, rem) ==
    IF rem = {}
    THEN <<>>
    ELSE LET i == BestIndex(points, qv, rem)
         IN  <<[id |-> points[i].id,
                score |-> Score(qv, points[i].vector),
                payload |-> points[i].payload]>>
             \o RankFrom(points, qv, rem \ {i})

\* qdrant.search: the limit closest points, by descending score, with payload
QdrantSearch(points, qv, limit) ==
    LET ranked == RankFrom(points, qv, 1..Len(points))
    IN  IF Len(ranked) <= limit THEN ranked ELSE SubSeq(ranked, 1, limit)

----------------------------------------------------------------------------
(* The Drive source *)

PdfMime == "application/pdf"
DocxMime == "application/vnd.openxmlformats-officedocument.wordprocessingml.document"
GoogleDocMime == "application/vnd.google-apps.document"
Mimes == {PdfMime, DocxMime, GoogleDocMime, "text/plain", "image/png"}

\* mime.startswith("application/vnd.google-apps")
IsGoogleApps(mime) == mime = GoogleDocMime

\* mime_type.startswith("text/")
IsTextMime(mime) == mime = "text/plain"

\* the text a downloaded file holds, for the formats that can be extracted
FileText == "file text"

extract_text_from_file(file_text, mime_type) ==
    IF mime_type = PdfMime THEN file_text
    ELSE IF mime_type = DocxMime THEN file_text
    ELSE IF IsTextMime(mime_type) THEN file_text
    ELSE ""

DriveFile == [id |-> "f1", name |-> "report.txt", mimeType |-> "text/plain"]

\* what files().list().execute() can answer: a body with or without "files"
DriveListReplies == {[files |-> <<DriveFile>>], [files |-> <<>>], <<>>}

----------------------------------------------------------------------------
(* Results of the handlers *)

SearchLimit == 5
UnknownToolCode == -1

InitializeResult ==
    [protocolVersion |-> "2024-02-01",
     capabilities |-> [tools |-> TRUE],
     sessionId |-> "fh-session"]

Descriptor(name, description, properties, required) ==
    [name |-> name,
     description |-> description,
     inputSchema |-> [type |-> "object",
                      properties |-> properties,
                      required |-> required]]

StringType == [type |-> "string"]

ToolCatalog ==
    <<Descriptor("gdrive_search", "Search files in Google Drive folder",
                 [query |-> StringType], <<"query">>),
      Descriptor("gdrive_read", "Read & extract text from Google Drive file",
                 [file_id |-> StringType], <<"file_id">>),
      Descriptor("rag_upsert", "Add document text to Qdrant RAG",
                 [doc_id |-> StringType, text |-> StringType],
                 <<"doc_id", "text">>),
      Descriptor("rag_search", "Search Qdrant RAG",
                 [query |-> StringType], <<"query">>)>>

on_tools_list_after_failure ==
    [tools |-> IF last.outcome = "raised" THEN Tail(ToolCatalog) ELSE ToolCatalog]

\* what on_tools_list returns
on_tools_list == [tools |-> ToolCatalog]

UnknownToolResultAnonymous(tool) ==
    [error |-> [code |-> UnknownToolCode, message |-> <<"Unknown tool: ">>]]

\* lines 203-208; the message is the f-string's parts
UnknownToolResult(tool) ==
    [error |-> [code |-> UnknownToolCode, message |-> <<"Unknown tool: ", tool>>]]

UpsertResult == [status |-> "ok"]

\* lines 192-200: each hit's score and the text of its payload
SearchResult(hits) ==
    [results |->
        [i \in 1..Len(hits) |->
            [score |-> hits[i].score,
             text |-> IF "text" \in DOMAIN hits[i].payload
                      THEN hits[i].payload.text
                      ELSE ""]]]

GdriveSearchResult(res) ==
    [files |-> IF "files" \in DOMAIN res THEN res.files ELSE <<>>]

GdriveReadResult(file_text, mime) == [text |-> extract_text_from_file(file_text, mime)]

----------------------------------------------------------------------------
(* How a request ended *)

\* reply is the collaborator's answer the ending step handled, "none" when the
\* request ended before any; sent is the outbound requests the call issued
Ended(method, p, outcome, result, exc, reply, log) ==
    [method |-> method, params |-> p, outcome |-> outcome, result |-> result,
     exc |-> exc, reply |-> reply, sent |-> log]

Returned(p, result, reply, log) ==
    Ended("tools/call", p, "returned", result, "none", reply, log)

\* an exception leaves on_tools_call: the code has no try block
Raised(p, exc, reply, log) ==
    Ended("tools/call", p, "raised", NoResult, exc, reply, log)

NothingEnded == Ended("none", NoParams, "none", NoResult, "none", "none", <<>>)

\* request.params.get("arguments", {})
ArgsOf(p) == IF "arguments" \in DOMAIN p THEN p.arguments ELSE NoArgs

----------------------------------------------------------------------------
(* on_tools_call, from its entry to its first suspension point or its end *)

RaiseStep(exc) == [kind |-> "raise", exc |-> exc]

\* get_gdrive_service() and the Drive requests that follow it are synchronous
DriveStep == [kind |-> "drive"]

\* Dispatch with the rag_search branch missing: the name falls through to
\* the unknown-tool result
DispatchWithoutSearch(p) ==
    IF "name" \notin DOMAIN p
    THEN RaiseStep("KeyError")
    ELSE LET tool == p.name
             args == ArgsOf(p)
         IN  IF tool = "gdrive_search"
             THEN IF "query" \notin DOMAIN args
                  THEN RaiseStep("KeyError")
                  ELSE DriveStep
             ELSE IF tool = "gdrive_read"
             THEN IF "file_id" \notin DOMAIN args
                  THEN RaiseStep("KeyError")
                  ELSE DriveStep
             ELSE IF tool = "rag_upsert"
             THEN IF "doc_id" \notin DOMAIN args \/ "text" \notin DOMAIN args
                  THEN RaiseStep("KeyError")
                  ELSE [kind |-> "embed", text |-> args.text]
             ELSE [kind |-> "return", result |-> UnknownToolResult(tool)]

Dispatch(p) ==
    IF "name" \notin DOMAIN p
    THEN RaiseStep("KeyError")
    ELSE LET tool == p.name
             args == ArgsOf(p)
         IN  IF tool = "gdrive_search"
             THEN IF "query" \notin DOMAIN args
                  THEN RaiseStep("KeyError")
                  ELSE DriveStep
             ELSE IF tool = "gdrive_read"
             THEN IF "file_id" \notin DOMAIN args
                  THEN RaiseStep("KeyError")
                  ELSE DriveStep
             ELSE IF tool = "rag_upsert"
             THEN IF "doc_id" \notin DOMAIN args \/ "text" \notin DOMAIN args
                  THEN RaiseStep("KeyError")
                  ELSE [kind |-> "embed", text |-> args.text]
             ELSE IF tool = "rag_search"
             THEN IF "query" \notin DOMAIN args
                  THEN RaiseStep("KeyError")
                  ELSE [kind |-> "embed", text |-> args.query]
             ELSE [kind |-> "return", result |-> UnknownToolResult(tool)]

\* the text a suspended RAG call has sent to the embedding provider
TextOf(p) ==
    IF p.name = "rag_upsert" THEN ArgsOf(p).text ELSE ArgsOf(p).query

EmbeddingReplies == {"ok", "bad_body", "transport_error", "timeout"}

\* get_embedding with a response shared between calls: the vector is that of
\* another call's text when one waits for its embedding at the same time
get_embedding_leaking(text, reply) ==
    CASE reply = "ok" ->
           [ok |-> TRUE,
            value |-> IF \E c \in Calls : /\ pc[c] = "await_embedding"
                                          /\ TextOf(params[c]) # text
                      THEN Embed(CHOOSE t \in Texts : t # text)
                      ELSE Embed(text)]
      [] reply = "bad_body" -> [ok |-> FALSE, exc |-> "KeyError"]
      [] reply = "transport_error" -> [ok |-> FALSE, exc |-> "TransportError"]
      [] reply = "timeout" -> [ok |-> FALSE, exc |-> "Timeout"]

\* get_embedding: the vector of the reply, or the exception that ends the await.
\* The request carries no timeout argument: a timeout is the HTTP client's own.
get_embedding(text, reply) ==
    CASE reply = "ok" -> [ok |-> TRUE, value |-> Embed(text)]
      [] reply = "bad_body" -> [ok |-> FALSE, exc |-> "KeyError"]
      [] reply = "transport_error" -> [ok |-> FALSE, exc |-> "TransportError"]
      [] reply = "timeout" -> [ok |-> FALSE, exc |-> "Timeout"]

StoreReplies == {"ok", "error", "timeout"}

StoreException(reply) == IF reply = "timeout" THEN "Timeout" ELSE "StoreError"

CollectionAfterUpsertWritesFirst(points, p, reply) == Upsert(points, p)

\* lines 172-181: the one remote call writes the point, or fails and writes nothing
CollectionAfterUpsert(points, p, reply) ==
    IF reply = "ok" THEN Upsert(points, p) ELSE points

\* How the Drive part of a call can end.  "TypeError": GOOGLE_SERVICE_ACCOUNT_JSON
\* is unset and json.loads(None) raises before any request is sent.
\* "HttpError": a Drive request fails.
DriveFailures ==
    {[ok |-> FALSE, kind |-> "no_credentials", exc |-> "TypeError", requested |-> FALSE],
     [ok |-> FALSE, kind |-> "error", exc |-> "HttpError", requested |-> TRUE]}

DriveReplies(tool) ==
    IF tool = "gdrive_search"
    THEN {[ok |-> TRUE, kind |-> "ok", res |-> r, requested |-> TRUE] :
              r \in DriveListReplies}
         \cup DriveFailures
    ELSE {[ok |-> TRUE, kind |-> "ok", mimeType |-> m, requested |-> TRUE] :
              m \in Mimes}
         \cup DriveFailures

----------------------------------------------------------------------------
(* State machine *)

\* lines 55-64 have run: the collection exists and the instances are up
Provisioned ==
    /\ exists = TRUE
    /\ boot = [i \in Instances |-> "ready"]
    /\ answer = [i \in Instances |-> "none"]

Init ==
    /\ Provisioned
    /\ QDRANT_API_KEY \in {"", "secret"}
    /\ collection = <<>>
    /\ pc = [c \in Calls |-> "idle"]
    /\ params = [c \in Calls |-> NoParams]
    /\ emb = [c \in Calls |-> NoVector]
    /\ sent = [c \in Calls |-> <<>>]
    /\ blocked = 0
    /\ last = NothingEnded
    /\ before = <<>>

\* the task's locals are dropped when on_tools_call ends
Finish(c) ==
    /\ pc' = [pc EXCEPT ![c] = "idle"]
    /\ params' = [params EXCEPT ![c] = NoParams]
    /\ emb' = [emb EXCEPT ![c] = NoVector]
    /\ sent' = [sent EXCEPT ![c] = <<>>]

\* on_initialize
Initialize ==
    /\ blocked = 0
    /\ last' = Ended("initialize", NoParams, "returned", InitializeResult,
                     "none", "none", <<>>)
    /\ before' = collection
    /\ UNCHANGED provVars
    /\ UNCHANGED <<QDRANT_API_KEY, collection, pc, params, emb, sent, blocked>>

\* on_tools_list
ListTools ==
    /\ blocked = 0
    /\ last' = Ended("tools/list", NoParams, "returned", on_tools_list,
                     "none", "none", <<>>)
    /\ before' = collection
    /\ UNCHANGED provVars
    /\ UNCHANGED <<QDRANT_API_KEY, collection, pc, params, emb, sent, blocked>>

\* on_tools_call starts on request p and runs to its first suspension point.
\* Tasks are interchangeable: a new call is task c, the first one that is free.
CallTool(c, p) ==
    /\ pc[c] = "idle"
    /\ \A d \in Calls : d < c => pc[d] # "idle"
    /\ blocked = 0
    /\ LET step == Dispatch(p)
       IN  CASE step.kind = "raise" ->
                  /\ last' = Raised(p, step.exc, "none", <<>>)
                  /\ UNCHANGED <<pc, params, emb, sent, blocked>>
             [] step.kind = "return" ->
                  /\ last' = Returned(p, step.result, "none", <<>>)
                  /\ UNCHANGED <<pc, params, emb, sent, blocked>>
             [] step.kind = "embed" ->
                  /\ pc' = [pc EXCEPT ![c] = "await_embedding"]
                  /\ params' = [params EXCEPT ![c] = p]
                  /\ sent' = [sent EXCEPT ![c] = <<"embedding">>]
                  /\ last' = NothingEnded
                  /\ UNCHANGED <<emb, blocked>>
             [] step.kind = "drive" ->
                  /\ pc' = [pc EXCEPT ![c] = "in_gdrive"]
                  /\ params' = [params EXCEPT ![c] = p]
                  /\ blocked' = c
                  /\ last' = NothingEnded
                  /\ UNCHANGED <<emb, sent>>
    /\ before' = collection
    /\ UNCHANGED provVars
    /\ UNCHANGED <<QDRANT_API_KEY, collection>>

\* EmbeddingRespond with one retry: a failed embedding request is sent again
EmbeddingRespondRetrying(c, reply) ==
    /\ pc[c] = "await_embedding"
    /\ blocked = 0
    /\ LET r == get_embedding(TextOf(params[c]), reply)
       IN  IF r.ok
           THEN /\ emb' = [emb EXCEPT ![c] = r.value]
                /\ pc' = [pc EXCEPT ![c] = "in_store"]
                /\ sent' = [sent EXCEPT ![c] = Append(@, "qdrant")]
                /\ blocked' = c
                /\ last' = NothingEnded
                /\ UNCHANGED params
           ELSE IF Len(sent[c]) = 1
           THEN /\ sent' = [sent EXCEPT ![c] = Append(@, "embedding")]
                /\ last' = NothingEnded
                /\ UNCHANGED <<pc, params, emb, blocked>>
           ELSE /\ Finish(c)
                /\ last' = Raised(params[c], r.exc, reply, sent[c])
                /\ UNCHANGED blocked
    /\ before' = collection
    /\ UNCHANGED provVars
    /\ UNCHANGED <<QDRANT_API_KEY, collection>>

\* the await of get_embedding ends and the task runs on: it raises, or it
\* enters the synchronous qdrant.upsert / qdrant.search call
EmbeddingRespond(c, reply) ==
    /\ pc[c] = "await_embedding"
    /\ blocked = 0
    /\ LET r == get_embedding(TextOf(params[c]), reply)
       IN  IF r.ok
           THEN /\ emb' = [emb EXCEPT ![c] = r.value]
                /\ pc' = [pc EXCEPT ![c] = "in_store"]
                /\ sent' = [sent EXCEPT ![c] = Append(@, "qdrant")]
                /\ blocked' = c
                /\ last' = NothingEnded
                /\ UNCHANGED params
           ELSE /\ Finish(c)
                /\ last' = Raised(params[c], r.exc, reply, sent[c])
                /\ UNCHANGED blocked
    /\ before' = collection
    /\ UNCHANGED provVars
    /\ UNCHANGED <<QDRANT_API_KEY, collection>>

\* the synchronous store call ends and on_tools_call returns or raises
StoreRespond(c, reply) ==
    /\ pc[c] = "in_store"
    /\ blocked = c
    /\ LET p == params[c]
           args == ArgsOf(p)
       IN  /\ collection' =
                IF p.name = "rag_upsert"
                THEN CollectionAfterUpsert(
                         collection,
                         PointStruct(args.doc_id, emb[c], [text |-> args.text]),
                         reply)
                ELSE collection
           /\ last' =
                IF reply # "ok"
                THEN Raised(p, StoreException(reply), reply, sent[c])
                ELSE IF p.name = "rag_upsert"
                THEN Returned(p, UpsertResult, reply, sent[c])
                ELSE Returned(p,
                              SearchResult(QdrantSearch(collection, emb[c], SearchLimit)),
                              reply, sent[c])
    /\ Finish(c)
    /\ blocked' = 0
    /\ before' = collection
    /\ UNCHANGED provVars
    /\ UNCHANGED QDRANT_API_KEY

\* the synchronous Drive calls end and on_tools_call returns or raises
GdriveRespond(c, reply) ==
    /\ pc[c] = "in_gdrive"
    /\ blocked = c
    /\ reply \in DriveReplies(params[c].name)
    /\ LET log == IF reply.requested THEN <<"gdrive">> ELSE <<>>
       IN  last' =
             IF ~reply.ok
             THEN Raised(params[c], reply.exc, reply.kind, log)
             ELSE IF params[c].name = "gdrive_search"
             THEN Returned(params[c], GdriveSearchResult(reply.res), reply.kind, log)
             ELSE Returned(params[c], GdriveReadResult(FileText, reply.mimeType),
                           reply.kind, log)
    /\ Finish(c)
    /\ blocked' = 0
    /\ before' = collection
    /\ UNCHANGED provVars
    /\ UNCHANGED <<QDRANT_API_KEY, collection>>

AllDriveReplies == DriveReplies("gdrive_search") \cup DriveReplies("gdrive_read")

Next ==
    \/ Initialize
    \/ ListTools
    \/ \E c \in Calls, p \in CallParams : CallTool(c, p)
    \/ \E c \in Calls, reply \in EmbeddingReplies : EmbeddingRespond(c, reply)
    \/ \E c \in Calls, reply \in StoreReplies : StoreRespond(c, reply)
    \/ \E c \in Calls, reply \in AllDriveReplies : GdriveRespond(c, reply)

Spec == Init /\ [][Next]_vars

----------------------------------------------------------------------------
(* Start-up: lines 55-64, run by every server instance when it is imported *)

serverVars == <<QDRANT_API_KEY, collection, pc, params, emb, sent, blocked, last, before>>

\* before line 55: nothing is served yet, the collection may or may not exist
ProvInit ==
    /\ QDRANT_API_KEY \in {"", "secret"}
    /\ collection = <<>>
    /\ pc = [c \in Calls |-> "idle"]
    /\ params = [c \in Calls |-> NoParams]
    /\ emb = [c \in Calls |-> NoVector]
    /\ sent = [c \in Calls |-> <<>>]
    /\ blocked = 0
    /\ last = NothingEnded
    /\ before = <<>>
    /\ exists \in BOOLEAN
    /\ boot = [i \in Instances |-> "start"]
    /\ answer = [i \in Instances |-> "none"]

ProvisioningReplies == {"ok", "error"}

\* line 57: qdrant.collection_exists; a request that fails raises, and the
\* exception ends the import
CollectionExists(i, reply) ==
    /\ boot[i] = "start"
    /\ IF reply = "error"
       THEN /\ boot' = [boot EXCEPT ![i] = "crashed"]
            /\ answer' = [answer EXCEPT ![i] = "error"]
       ELSE /\ boot' = [boot EXCEPT ![i] = IF exists THEN "ready" ELSE "saw_absent"]
            /\ UNCHANGED answer
    /\ UNCHANGED <<exists, serverVars>>

\* lines 58-64: qdrant.create_collection, not guarded by any try block.  The
\* store creates the collection, or answers that it already exists, and the
\* client raises on that answer as on a failed request.
CreateCollection(i, reply) ==
    /\ boot[i] = "saw_absent"
    /\ IF reply = "error"
       THEN /\ boot' = [boot EXCEPT ![i] = "crashed"]
            /\ answer' = [answer EXCEPT ![i] = "error"]
            /\ UNCHANGED exists
       ELSE IF exists
       THEN /\ boot' = [boot EXCEPT ![i] = "crashed"]
            /\ answer' = [answer EXCEPT ![i] = "already_exists"]
            /\ UNCHANGED exists
       ELSE /\ boot' = [boot EXCEPT ![i] = "ready"]
            /\ answer' = [answer EXCEPT ![i] = "created"]
            /\ exists' = TRUE
    /\ UNCHANGED serverVars

ProvNext ==
    \/ \E i \in Instances, reply \in ProvisioningReplies : CollectionExists(i, reply)
    \/ \E i \in Instances, reply \in ProvisioningReplies : CreateCollection(i, reply)

ProvSpec == ProvInit /\ [][ProvNext]_vars

----------------------------------------------------------------------------
(* Vocabulary of the properties *)

\* the names tools/list advertises
ListedNames == {on_tools_list.tools[i].name : i \in 1..Len(on_tools_list.tools)}

EndedCall == last.method = "tools/call"

\* the tool the ended call named, "" when its params carry no name
EndedTool == IF EndedCall /\ "name" \in DOMAIN last.params THEN last.params.name ELSE ""

EndedArgs == ArgsOf(last.params)

EndedOk(tool) == EndedCall /\ EndedTool = tool /\ last.outcome = "returned"

IndicesOf(points, id) == {i \in 1..Len(points) : points[i].id = id}

\* a result envelope {content: [{type: "text", text: ...}, ...]}
IsTextBlock(b) == DOMAIN b = {"type", "text"} /\ b.type = "text"

IsContentEnvelope(r) ==
    /\ "content" \in DOMAIN r
    /\ \A i \in 1..Len(r.content) : IsTextBlock(r.content[i])

IsErrorObject(r) ==
    /\ "error" \in DOMAIN r
    /\ DOMAIN r.error = {"code", "message"}

----------------------------------------------------------------------------
(* C1 *)

\* C1: every tools/call ends with a result payload; no exception escapes the
\* tools/call handler, whatever fails in the tool or in its collaborators.
C1_NoExceptionEscapes == EndedCall => last.outcome = "returned"

----------------------------------------------------------------------------
(* C2 *)

EndedUnknownTool ==
    /\ EndedCall
    /\ "name" \in DOMAIN last.params
    /\ last.params.name \notin ListedNames

\* C2: a tools/call naming a tool that is not in the registry returns a result
\* whose content names that tool, and the step changes nothing else: the
\* collection and every call in flight are as they were, so a following valid
\* call runs as it would have without it.
C2_UnknownToolNamedAndHarmless ==
    [][EndedUnknownTool' =>
          /\ last'.outcome = "returned"
          /\ IsErrorObject(last'.result)
          /\ \E i \in 1..Len(last'.result.error.message) :
                 last'.result.error.message[i] = last'.params.name
          /\ UNCHANGED <<QDRANT_API_KEY, collection, pc, params, emb, sent, blocked>>
      ]_vars

\* an unknown-tool call has ended while documents are stored and a call is in flight
C2_Witness ==
    /\ EndedUnknownTool
    /\ last.params.name = "does_not_exist"
    /\ collection # <<>>
    /\ \E c \in Calls : pc[c] = "await_embedding"

----------------------------------------------------------------------------
(* C3 *)

\* C3: upsert is replace-or-insert by id.  The collection never holds two
\* records with one id; after a successful rag_upsert(d, t) the one record of d
\* has text t; and a step that is not a successful rag_upsert of d leaves the
\* record of d as it was, so the record of d always holds the text of the
\* latest successful call for d.
C3_UpsertReplacesById ==
    /\ \A i, j \in 1..Len(collection) :
           collection[i].id = collection[j].id => i = j
    /\ EndedOk("rag_upsert") =>
           /\ Cardinality(IndicesOf(collection, EndedArgs.doc_id)) = 1
           /\ \A i \in IndicesOf(collection, EndedArgs.doc_id) :
                  collection[i].payload.text = EndedArgs.text
    /\ \A d \in DocIds :
           ~(EndedOk("rag_upsert") /\ EndedArgs.doc_id = d) =>
               /\ Cardinality(IndicesOf(collection, d))
                      = Cardinality(IndicesOf(before, d))
               /\ \A i \in IndicesOf(collection, d) :
                      \E j \in IndicesOf(before, d) : collection[i] = before[j]

\* the same doc_id has just been stored a second time, with a different text
C3_Witness ==
    /\ EndedOk("rag_upsert")
    /\ \E j \in IndicesOf(before, EndedArgs.doc_id) :
           before[j].payload.text # EndedArgs.text
    /\ Len(collection) = 2

----------------------------------------------------------------------------
(* C4 *)

\* C4: round trip.  A successful search whose query is the text of a stored
\* document returns a hit that carries that document's id and its stored text.
C4_SearchHitCarriesIdAndText ==
    EndedOk("rag_search") =>
        \A i \in 1..Len(collection) :
            collection[i].payload.text = EndedArgs.query =>
                \E k \in 1..Len(last.result.results) :
                    LET hit == last.result.results[k]
                    IN  /\ "id" \in DOMAIN hit
                        /\ "text" \in DOMAIN hit
                        /\ hit.id = collection[i].id
                        /\ hit.text = collection[i].payload.text

----------------------------------------------------------------------------
(* C5 *)

\* the k of a search: the caller's top_k, 5 when it is omitted
RequestedTopK(args) == IF "top_k" \in DOMAIN args THEN args.top_k ELSE 5

\* C5: a successful search returns at most k hits, k being the caller's top_k
\* (5 when omitted), in descending order of score.
C5_AtMostTopKHitsDescending ==
    EndedOk("rag_search") =>
        LET hits == last.result.results
        IN  /\ Len(hits) <= RequestedTopK(EndedArgs)
            /\ \A i, j \in 1..Len(hits) : i < j => hits[i].score >= hits[j].score

----------------------------------------------------------------------------
(* C6 *)

\* a rag_upsert or rag_search call whose arguments carry the required keys
EndedWellFormedRagCall ==
    \/ EndedTool = "rag_upsert" /\ {"doc_id", "text"} \subseteq DOMAIN EndedArgs
    \/ EndedTool = "rag_search" /\ "query" \in DOMAIN EndedArgs

\* C6: with the vector-store credential unset, a rag_upsert or rag_search call
\* ends with an error result (not a success payload, not an exception) and has
\* issued no outbound request, neither to the embedding provider nor to the store.
C6_MissingCredentialFailsFast ==
    (QDRANT_API_KEY = "" /\ EndedWellFormedRagCall) =>
        /\ last.outcome = "returned"
        /\ "status" \notin DOMAIN last.result
        /\ "results" \notin DOMAIN last.result
        /\ last.sent = <<>>

----------------------------------------------------------------------------
(* C7 *)

\* C7: a rag_upsert call that fails, at the embedding step or at the store
\* step, leaves the collection exactly as it was before; and every record of
\* the collection is a complete one: an id, the text of a call and the vector
\* of that text.
C7_FailedUpsertWritesNothing ==
    /\ (EndedCall /\ EndedTool = "rag_upsert" /\ last.outcome = "raised") =>
           collection = before
    /\ \A i \in 1..Len(collection) :
           /\ DOMAIN collection[i] = {"id", "vector", "payload"}
           /\ collection[i].id \in DocIds
           /\ DOMAIN collection[i].payload = {"text"}
           /\ collection[i].payload.text \in Texts
           /\ collection[i].vector = Embed(collection[i].payload.text)

\* a rag_upsert has failed at the store step, after its embedding succeeded,
\* on a doc_id that is stored with another text
C7_Witness ==
    /\ EndedCall /\ EndedTool = "rag_upsert" /\ last.outcome = "raised"
    /\ last.sent = <<"embedding", "qdrant">>
    /\ \E i \in IndicesOf(collection, EndedArgs.doc_id) :
           collection[i].payload.text # EndedArgs.text

----------------------------------------------------------------------------
(* C8 *)

\* C8: every tools/call response is a result envelope whose content is a
\* sequence of {type: "text", text} blocks; only the unknown-tool response may
\* instead carry an error object {code, message}.
C8_ResponsesAreContentEnvelopes ==
    (EndedCall /\ last.outcome = "returned") =>
        \/ IsContentEnvelope(last.result)
        \/ EndedUnknownTool /\ IsErrorObject(last.result)

----------------------------------------------------------------------------
(* C9 *)

ExpectedNames == <<"gdrive_search", "gdrive_read", "rag_upsert", "rag_search">>

\* C9: the catalog is the same in every state.  Every tools/list response is
\* the four descriptors in their order; and right after a tools/call has
\* failed the server still takes requests: a tools/call can start, and
\* tools/list answers with that same catalog.
C9_CatalogSurvivesFailures ==
    /\ last.method = "tools/list" =>
           /\ last.outcome = "returned"
           /\ last.result.tools = ToolCatalog
           /\ [i \in 1..Len(last.result.tools) |-> last.result.tools[i].name]
                  = ExpectedNames
    /\ (EndedCall /\ last.outcome = "raised") =>
           /\ ENABLED (ListTools /\ last'.result.tools = ToolCatalog)
           /\ ENABLED (\E c \in Calls, p \in CallParams : CallTool(c, p))

\* a tools/call has just failed at a collaborator while another is in flight
C9_Witness ==
    /\ EndedCall /\ last.outcome = "raised"
    /\ last.reply \in {"transport_error", "error"}
    /\ \E c \in Calls : pc[c] # "idle"

----------------------------------------------------------------------------
(* C10 *)

\* C10: a call whose outbound request ran into a timeout ends as a failure
\* result: it returns a response, it does not leave the caller without one.
C10_TimeoutEndsAsFailureResult ==
    (EndedCall /\ last.reply = "timeout") => last.outcome = "returned"

----------------------------------------------------------------------------
(* C11 *)

ProvisioningEnded == \A i \in Instances : boot[i] \in {"ready", "crashed"}

\* C11: provisioning is idempotent under a race.  When the instances have all
\* finished their start-up and no request of theirs failed in transport, every
\* instance is up and the collection exists: an instance that saw the
\* collection absent and whose create was answered "already exists" has
\* completed provisioning like the one that created it.
C11_ProvisioningRaceIsIdempotent ==
    (ProvisioningEnded /\ \A i \in Instances : answer[i] # "error") =>
        /\ exists
        /\ \A i \in Instances : boot[i] = "ready"

----------------------------------------------------------------------------
(* C12 *)

\* C12: every collaborator call is a suspension point.  While a call waits on
\* the embedding provider or on the vector store, every other call that waits
\* for its embedding can resume when its reply arrives, and a free task can
\* start a new call.
C12_CollaboratorCallsDoNotBlock ==
    \A c \in Calls :
        pc[c] \in {"await_embedding", "in_store"} =>
            /\ \A d \in Calls \ {c} :
                   pc[d] = "await_embedding" =>
                       ENABLED (\E reply \in EmbeddingReplies : EmbeddingRespond(d, reply))
            /\ (\E d \in Calls : pc[d] = "idle") =>
                   ENABLED (\E d \in Calls, p \in CallParams : CallTool(d, p))

----------------------------------------------------------------------------
(* C13 *)

\* C13: no response data of one call leaks into another.  A call inside its
\* store request holds the embedding of its own text; the record a successful
\* rag_upsert has written is that call's doc_id, the vector of that call's
\* text and that text; and the result of a successful rag_search is the
\* store's answer to the embedding of that call's own query.
C13_NoCrossCallLeak ==
    /\ \A c \in Calls :
           pc[c] = "in_store" => emb[c] = Embed(TextOf(params[c]))
    /\ EndedOk("rag_upsert") =>
           \E i \in 1..Len(collection) :
               collection[i] = PointStruct(EndedArgs.doc_id,
                                           Embed(EndedArgs.text),
                                           [text |-> EndedArgs.text])
    /\ EndedOk("rag_search") =>
           last.result = SearchResult(QdrantSearch(collection,
                                                   Embed(EndedArgs.query),
                                                   SearchLimit))

\* a rag_upsert has written its record while another call, with another text,
\* was waiting for its embedding
C13_Witness ==
    /\ EndedOk("rag_upsert")
    /\ \E c \in Calls :
           /\ pc[c] = "await_embedding"
           /\ TextOf(params[c]) # EndedArgs.text

----------------------------------------------------------------------------
(* C14 *)

Count(log, x) == Cardinality({i \in 1..Len(log) : log[i] = x})

\* at most one request to each collaborator, the store's after the embedding's
SingleAttempt(log) ==
    /\ Count(log, "embedding") <= 1
    /\ Count(log, "qdrant") <= 1
    /\ \A i \in 1..Len(log) :
           log[i] = "qdrant" => \E j \in 1..(i - 1) : log[j] = "embedding"

\* C14: each rag_upsert or rag_search call makes a single attempt.  It sends at
\* most one request to the embedding provider and at most one to the store;
\* the store request is sent only once the embedding has been received; and a
\* call that a collaborator failed has ended with the requests it had sent,
\* none of them repeated, the store never asked after a failed embedding.
C14_SingleAttemptPerCall ==
    /\ \A c \in Calls :
           /\ SingleAttempt(sent[c])
           /\ Count(sent[c], "qdrant") = 1 =>
                  /\ pc[c] = "in_store"
                  /\ emb[c] = Embed(TextOf(params[c]))
           /\ pc[c] = "await_embedding" => sent[c] = <<"embedding">>
    /\ (EndedCall /\ EndedTool \in {"rag_upsert", "rag_search"}) =>
           /\ SingleAttempt(last.sent)
           /\ last.reply \in {"bad_body", "transport_error"} =>
                  /\ last.outcome = "raised"
                  /\ last.sent = <<"embedding">>
           /\ last.reply = "error" =>
                  /\ last.outcome = "raised"
                  /\ last.sent = <<"embedding", "qdrant">>
           /\ last.reply = "timeout" =>
                  /\ last.outcome = "raised"
                  /\ last.sent \in {<<"embedding">>, <<"embedding", "qdrant">>}

\* a rag_search has ended on a transport failure of its embedding request
C14_Witness ==
    /\ EndedCall /\ EndedTool = "rag_search"
    /\ last.reply = "transport_error"
    /\ last.outcome = "raised"
    /\ last.sent = <<"embedding">>

----------------------------------------------------------------------------
(* C15 *)

NamedParams == {p \in CallParams : "name" \in DOMAIN p}

\* the call ended with the unknown-tool result
EndedAsUnknownTool ==
    /\ EndedCall
    /\ last.outcome = "returned"
    /\ IsErrorObject(last.result)

\* C15: the registry and the dispatcher agree.  A request is answered with the
\* unknown-tool result by the dispatcher exactly when its name is not one
\* tools/list returns: for every request a client can send, for every call
\* that has ended, and every call in flight carries a listed name.
C15_RegistryAndDispatcherAgree ==
    /\ \A p \in NamedParams :
           (Dispatch(p).kind = "return") <=> (p.name \notin ListedNames)
    /\ \A n \in ListedNames :
           Dispatch([name |-> n]).kind # "return"
    /\ (EndedCall /\ "name" \in DOMAIN last.params) =>
           (EndedAsUnknownTool <=> last.params.name \notin ListedNames)
    /\ \A c \in Calls :
           pc[c] # "idle" => params[c].name \in ListedNames

\* a listed tool has been routed to its implementation and has answered, after
\* which the store holds two documents
C15_Witness ==
    /\ EndedOk("rag_search")
    /\ EndedTool \in ListedNames
    /\ Len(last.result.results) = 2

----------------------------------------------------------------------------
(* C16 *)

\* C16: only rag_upsert changes the collection, and only the record of its own
\* doc_id.  A step that does not end a successful rag_upsert (initialize,
\* tools/list, a search, a Drive tool, an unknown tool, a failed call, a call
\* that suspends) leaves the collection as it was; a successful rag_upsert of d
\* leaves every record with another id as it was and where it was.
C16_OnlyUpsertWritesItsOwnRecord ==
    /\ ~EndedOk("rag_upsert") => collection = before
    /\ EndedOk("rag_upsert") =>
           /\ \A i \in 1..Len(before) :
                  before[i].id # EndedArgs.doc_id =>
                      i <= Len(collection) /\ collection[i] = before[i]
           /\ \A i \in 1..Len(collection) :
                  collection[i].id # EndedArgs.doc_id =>
                      i <= Len(before) /\ collection[i] = before[i]

\* a rag_upsert has replaced the text of its document while the collection
\* holds a document with another id
C16_Witness ==
    /\ EndedOk("rag_upsert")
    /\ collection # before
    /\ \E i \in 1..Len(before) : before[i].id = EndedArgs.doc_id
    /\ \E i \in 1..Len(before) : before[i].id # EndedArgs.doc_id

====
